---- MODULE Spec2Model ----
(***************************************************************************)
(* LND-Fuzz: the cycle scheduler (scheduler/scheduler.go), the cycle       *)
(* worker (worker/runner.go) and the discovery/execution pass             *)
(* (fuzz/fuzz.go), as one state machine.                                   *)
(*                                                                         *)
(* One scheduler goroutine runs RunFuzzingCycles.  Every cycle it derives  *)
(* a cancellable cycle context from the root context, makes a doneChan    *)
(* and starts one worker goroutine.  The worker runs runFuzzingWorker ->   *)
(* worker.Main -> git.CloneRepositories -> fuzz.RunFuzzing, which lists    *)
(* the targets of each package and executes them one after the other, each *)
(* as a subprocess with two output readers.  The environment cancels the   *)
(* root context (SIGINT/SIGTERM) at any moment.                            *)
(***************************************************************************)
EXTENDS Integers, FiniteSets, Sequences, TLC

(***************************************************************************)
(* Bounds of the model.                                                    *)
(***************************************************************************)
\* number of cycles the scheduler may start
MaxCycles == 2
\* number of packages in cfg.FuzzPkgs
NumPkgs == 2
\* largest number of fuzz targets a listing returns for one package
MaxTargets == 2

\* number of output lines processed, all target executions together
MaxLines == 4
\* number of target executions whose output is processed
MaxRuns == 2
\* number of lines the two readers of one subprocess read, both together
MaxStreamLines == 3
\* length of the output of the listing command, in pieces
MaxOutput == 6
\* length of the value of a numeric environment variable, in characters
MaxDigits == 2
\* largest number of CPU cores of the machine
MaxCPU == 2

Cycles == 1..MaxCycles
\* the two streams drained by streamOutput
Streams == {"stdout", "stderr"}

VARIABLES
    schedPc,     \* position of RunFuzzingCycles
    cycle,       \* number of cycles started so far; the current cycle
    rootDone,    \* the root context (appCtx) is cancelled
    cycleDone,   \* cycleDone[c]: cycle c's context (cycleCtx) is cancelled
    doneClosed,  \* doneClosed[c]: how often cycle c's doneChan was closed
    w,           \* w[c]: the worker goroutine of cycle c
    procExited   \* os.Exit was called: the whole process is gone

vars == <<schedPc, cycle, rootDone, cycleDone, doneClosed, w, procExited>>

\* The failure detector (package parser), one FuzzProcessor at a time.
VARIABLES
    pPc,         \* "idle", "reading" (in ProcessStream's loop) or "done"
    fp,          \* the FuzzProcessor: target, State and logWriter.file
    disk,        \* the files under cfg.FuzzResultsPath, by name
    pLines,      \* the lines scanner.Text() has delivered to this processor
    pLog,        \* what this processor has done so far (see NoLog)
    corpus       \* the bytes of the corpus file FuzzFoo/abc123

pvars == <<pPc, fp, disk, pLines, pLog, corpus>>

\* One call of listFuzzTargets.
VARIABLES
    listPc,      \* "running" ("go test -list" runs) or "returned"
    stdout,      \* what the listing command has written to its stdout
    targets      \* the slice listFuzzTargets returned

lvars == <<listPc, stdout, targets>>

\* The start of the program: main up to the call of runFuzzingCycles.
VARIABLES
    mainPc,      \* "start", "loadConfig", "loaded", "cycles" or "exited"
    env,         \* the environment variables, once LoadEnv has run
    cfg,         \* what LoadConfig returned: the Config, or nil
    startLog     \* what main has done so far (see NoStart)

svars == <<mainPc, env, cfg, startLog>>

\* The reader of the second stream of a fuzz subprocess (the first one is
\* the failure detector above).
VARIABLES
    errPc,       \* "idle", "reading" (in streamOutput's loop) or "done"
    errLines     \* the lines of stderr that streamOutput has logged

rvars == <<errPc, errLines>>

(***************************************************************************)
(* A worker goroutine.                                                     *)
(*   pc       position in runFuzzingWorker / Main / RunFuzzing             *)
(*   pkg      index into cfg.FuzzPkgs of the package being handled         *)
(*   ntgts    number of targets listFuzzTargets returned for that package  *)
(*   tgt      index of the target being executed                           *)
(*   sub      the subprocess last started by exec.CommandContext           *)
(*   ran      number of fuzz subprocesses executeFuzzTarget has started    *)
(*   readers  the streamOutput goroutines of that subprocess that have     *)
(*            called wg.Done                                               *)
(*   pipes    the pipes made by cmd.StdoutPipe / cmd.StderrPipe whose       *)
(*            descriptors are still open                                   *)
(*   err      the error Main received ("none" when there is none)          *)
(*   errCanc  whether the worker's context was cancelled when err arose    *)
(*   midRun   the cycle duration elapsed while a fuzz subprocess ran       *)
(***************************************************************************)
NoWorker ==
    [pc |-> "none", pkg |-> 0, ntgts |-> 0, tgt |-> 0, sub |-> "none",
     ran |-> 0, readers |-> {}, pipes |-> {}, err |-> "none", errCanc |-> FALSE,
     midRun |-> FALSE]

(***************************************************************************)
(* Text.  A string is a sequence of pieces; a piece is either one of the   *)
(* literals the code looks for or a run of other characters.  The empty    *)
(* string is << >>, concatenation is \o.                                   *)
(***************************************************************************)
\* the literal of strings.Contains(line, "--- FAIL:")
FailMarker == "--- FAIL:"
\* the two alternatives of fuzzFailureRegex before the target name
SeedPrefix == "failure while testing seed corpus entry: "
WrittenPrefix == "Failing input written to testdata/fuzz/"
\* pieces matching [0-9a-f]+
HexIds == {"abc123", "dead"}
NL == "\n"

\* the lines a fuzz run may print
OutputLines ==
    { <<"panic: x">>,
      <<FailMarker, " FuzzFoo">>,
      <<WrittenPrefix, "FuzzFoo", "/", "abc123">>,
      <<SeedPrefix, "FuzzFoo", "/", "dead">> }

\* the fuzz targets whose output is processed
TargetNames == {"FuzzFoo", "FuzzBar"}

\* what the fuzz engine may have stored in the corpus file FuzzFoo/abc123:
\* a word, or two lines
CorpusContents == { <<"SEED">>, <<"a", NL, "b">> }

\* os.ReadFile under corpusPath: FuzzFoo/abc123 exists, nothing else does
ReadFile(target, id) ==
    IF target = "FuzzFoo" /\ id = "abc123"
    THEN [ok |-> TRUE, data |-> corpus]
    ELSE [ok |-> FALSE, data |-> <<"no such file or directory">>]

\* filepath.Join(cfg.FuzzResultsPath, fmt.Sprintf("%s_failure.log", target)):
\* a path below the results directory, as its pieces
LogPath(target) == <<target, "_failure.log">>

\* a file that does not exist
NoFile == [exists |-> FALSE, data |-> << >>]

\* &FuzzProcessor{target: target, State: &ProcessState{},
\*                logWriter: &FileLogWriter{}}
NewProcessor(target) ==
    [target |-> target, SeenFailure |-> FALSE, ErrorData |-> << >>,
     InputPrinted |-> FALSE, file |-> "nil"]

(***************************************************************************)
(* What a processor has done:                                              *)
(*   run        how many processors were constructed                       *)
(*   total      how many lines all processors together have processed      *)
(*   inits      calls of logWriter.Initialize                              *)
(*   creates    of these, the ones in which os.Create succeeded            *)
(*   absentOps  writes attempted on a FileLogWriter whose file is nil      *)
(*   writeFails writes of a line that failed on an open file               *)
(*   lineErrs   errors returned by processLine (logged by ProcessStream)   *)
(*   reads      calls of os.ReadFile                                       *)
(*   captured   the number of the line whose handling assigned ErrorData,  *)
(*              0 when none did                                            *)
(*   hadLog     the log file of the target held something when the         *)
(*              processor was made                                         *)
(*   closes     calls of logWriter.Close                                   *)
(*   final      the outcome of Close: "none" (not called), "ok", "absent"  *)
(*              (file nil) or "failed" (the write failed, file left open)  *)
(*   end        what ended the read loop: "none", "eof" or "readErr"       *)
(***************************************************************************)
NoLog(run, total, hadLog) ==
    [run |-> run, total |-> total, inits |-> 0, creates |-> 0,
     absentOps |-> 0, writeFails |-> 0, lineErrs |-> 0, reads |-> 0,
     captured |-> 0, hadLog |-> hadLog,
     closes |-> 0, final |-> "none", end |-> "none"]

\* no processor exists yet and no log file has been written
ParserIdle ==
    /\ pPc = "idle"
    /\ fp = NewProcessor("FuzzFoo")
    /\ disk = [path \in {LogPath(t) : t \in TargetNames} |-> NoFile]
    /\ pLines = << >>
    /\ pLog = NoLog(0, 0, FALSE)
    /\ corpus = <<"SEED">>

\* the environment before LoadEnv: nothing is set.  NumCPU is what
\* runtime.NumCPU() returns, mkdirOk whether os.MkdirAll succeeds.
NoEnv ==
    [PROJECT_SRC_PATH |-> << >>, GIT_STORAGE_REPO |-> << >>,
     FUZZ_PKG |-> << >>, FUZZ_TIME |-> << >>, FUZZ_NUM_PROCESSES |-> << >>,
     NumCPU |-> 1, mkdirOk |-> TRUE]

\* the nil *Config
NilConfig ==
    [nil |-> TRUE, ProjectSrcPath |-> << >>, GitStorageRepo |-> << >>,
     FuzzPkgs |-> << >>, FuzzTime |-> << >>, NumProcesses |-> 0]

(***************************************************************************)
(* What main has done:                                                     *)
(*   errors   calls of logger.Error                                        *)
(*   err      the error LoadConfig returned ("none" when there is none)    *)
(*   exit     the status passed to os.Exit, -1 while the process runs      *)
(*   cycles   calls of runFuzzingCycles, which alone starts workers and    *)
(*            calls performCleanup                                         *)
(***************************************************************************)
NoStart == [errors |-> 0, err |-> "none", exit |-> -1, cycles |-> 0]

\* main has set up its context, signal handler and logger
StartIdle ==
    /\ mainPc = "start"
    /\ env = NoEnv
    /\ cfg = NilConfig
    /\ startLog = NoStart

\* "go test -list" has been started and has written nothing yet
ListIdle ==
    /\ listPc = "running"
    /\ stdout = << >>
    /\ targets = << >>

\* the goroutine that reads stderr has not started
ReaderIdle ==
    /\ errPc = "idle"
    /\ errLines = << >>

Init ==
    /\ ParserIdle
    /\ ListIdle
    /\ StartIdle
    /\ ReaderIdle
    /\ schedPc = "loopHead"
    /\ cycle = 0
    /\ rootDone = FALSE
    /\ cycleDone = [c \in Cycles |-> FALSE]
    /\ doneClosed = [c \in Cycles |-> 0]
    /\ w = [c \in Cycles |-> NoWorker]
    /\ procExited = FALSE

\* the process is running: no os.Exit yet, main has not returned
Alive == ~procExited /\ schedPc # "returned"

(***************************************************************************)
(* Contexts and the completion channel.                                    *)
(***************************************************************************)
\* context.WithCancel(ctx): a child derived from a cancelled parent is
\* cancelled from the start
WithCancel(parentDone) == parentDone

CancelChildren_Detached(cd, n) == cd
\* cancelling the root context cancels every context derived from it: the
\* cycle contexts 1..n created so far by context.WithCancel(ctx)
CancelChildren(cd, n) == [c \in Cycles |-> cd[c] \/ c <= n]

\* ctx.Done() of the worker of cycle c is closed / ctx.Err() # nil
CtxDone(c) == cycleDone[c]

DoneChanReady_FixedDelay(c) == TRUE
\* <-doneChan: a receive on doneChan proceeds only once it has been closed
DoneChanReady(c) == doneClosed[c] > 0

\* the goroutine of cycle c exists and has not terminated
WorkerActive(c) == w[c].pc \notin {"none", "returned", "exited"}

(***************************************************************************)
(* The environment: SIGINT / SIGTERM makes main's signal goroutine call    *)
(* cancelApp().                                                            *)
(***************************************************************************)
RootCancel ==
    /\ Alive
    /\ ~rootDone
    /\ rootDone' = TRUE
    /\ cycleDone' = CancelChildren(cycleDone, cycle)
    /\ UNCHANGED <<schedPc, cycle, doneClosed, w, procExited>>
    /\ UNCHANGED <<pvars, lvars, svars, rvars>>

(***************************************************************************)
(* RunFuzzingCycles.                                                       *)
(***************************************************************************)
LoopHead_NoCheck ==
    /\ Alive
    /\ schedPc = "loopHead"
    /\ schedPc' = "startCycle"
    /\ UNCHANGED <<cycle, rootDone, cycleDone, doneClosed, w, procExited>>
    /\ UNCHANGED <<pvars, lvars, svars, rvars>>
\* the select at the head of the loop: return when the root is cancelled
LoopHead ==
    /\ Alive
    /\ schedPc = "loopHead"
    /\ schedPc' = IF rootDone THEN "returned" ELSE "startCycle"
    /\ UNCHANGED <<cycle, rootDone, cycleDone, doneClosed, w, procExited>>
    /\ UNCHANGED <<pvars, lvars, svars, rvars>>

\* cycleCtx, cancelCycle := context.WithCancel(ctx); doneChan := make(...);
\* go runFuzzingWorker(cycleCtx, logger, cfg, doneChan)
StartCycle ==
    /\ Alive
    /\ schedPc = "startCycle"
    /\ cycle < MaxCycles
    /\ cycle' = cycle + 1
    /\ cycleDone' = [cycleDone EXCEPT ![cycle + 1] = WithCancel(rootDone)]
    /\ doneClosed' = [doneClosed EXCEPT ![cycle + 1] = 0]
    /\ w' = [w EXCEPT ![cycle + 1] = [NoWorker EXCEPT !.pc = "spawned"]]
    /\ schedPc' = "select"
    /\ UNCHANGED <<rootDone, procExited>>
    /\ UNCHANGED <<pvars, lvars, svars, rvars>>

SelectElapsed_NoWait ==
    /\ Alive
    /\ schedPc = "select"
    /\ cycleDone' = [cycleDone EXCEPT ![cycle] = TRUE]
    /\ w' = [w EXCEPT ![cycle].midRun =
                 @ \/ (w[cycle].pc = "draining" /\ w[cycle].sub = "running")]
    /\ schedPc' = "cleanupElapsed"
    /\ UNCHANGED <<cycle, rootDone, doneClosed, procExited>>
    /\ UNCHANGED <<pvars, lvars, svars, rvars>>
\* case <-time.After(cycleDuration): log, cancelCycle()
SelectElapsed ==
    /\ Alive
    /\ schedPc = "select"
    /\ cycleDone' = [cycleDone EXCEPT ![cycle] = TRUE]
    /\ w' = [w EXCEPT ![cycle].midRun =
                 @ \/ (w[cycle].pc = "draining" /\ w[cycle].sub = "running")]
    /\ schedPc' = "waitElapsed"
    /\ UNCHANGED <<cycle, rootDone, doneClosed, procExited>>
    /\ UNCHANGED <<pvars, lvars, svars, rvars>>

SelectRootDone_OnWorkerEnd ==
    /\ Alive
    /\ schedPc = "select"
    /\ rootDone \/ doneClosed[cycle] > 0
    /\ cycleDone' = [cycleDone EXCEPT ![cycle] = TRUE]
    /\ schedPc' = "waitRoot"
    /\ UNCHANGED <<cycle, rootDone, doneClosed, w, procExited>>
    /\ UNCHANGED <<pvars, lvars, svars, rvars>>
\* case <-ctx.Done(): log, cancelCycle()
SelectRootDone ==
    /\ Alive
    /\ schedPc = "select"
    /\ rootDone
    /\ cycleDone' = [cycleDone EXCEPT ![cycle] = TRUE]
    /\ schedPc' = "waitRoot"
    /\ UNCHANGED <<cycle, rootDone, doneClosed, w, procExited>>
    /\ UNCHANGED <<pvars, lvars, svars, rvars>>

\* <-doneChan in either branch
WaitDone ==
    /\ Alive
    /\ schedPc \in {"waitElapsed", "waitRoot"}
    /\ DoneChanReady(cycle)
    /\ schedPc' = IF schedPc = "waitElapsed" THEN "cleanupElapsed"
                                             ELSE "cleanupRoot"
    /\ UNCHANGED <<cycle, rootDone, cycleDone, doneClosed, w, procExited>>
    /\ UNCHANGED <<pvars, lvars, svars, rvars>>

\* config.CleanupWorkspace(logger), then loop or return
CleanupWorkspace ==
    /\ Alive
    /\ schedPc \in {"cleanupElapsed", "cleanupRoot"}
    /\ schedPc' = IF schedPc = "cleanupElapsed" THEN "loopHead" ELSE "returned"
    /\ UNCHANGED <<cycle, rootDone, cycleDone, doneClosed, w, procExited>>
    /\ UNCHANGED <<pvars, lvars, svars, rvars>>

(***************************************************************************)
(* runFuzzingWorker and worker.Main.                                       *)
(***************************************************************************)
Failed_Continue(r, e, canc) ==
    [r EXCEPT !.pc = "pkgLoop", !.pkg = @ + 1, !.err = e, !.errCanc = canc]
\* Main received error e from CloneRepositories or RunFuzzing
Failed(r, e, canc) == [r EXCEPT !.pc = "mainErr", !.err = e, !.errCanc = canc]

WorkerStart_NoCheck(c) ==
    /\ Alive
    /\ w[c].pc = "spawned"
    /\ w' = [w EXCEPT ![c].pc = "clone"]
    /\ UNCHANGED <<schedPc, cycle, rootDone, cycleDone, doneClosed, procExited>>
    /\ UNCHANGED <<pvars, lvars, svars, rvars>>
\* the select of runFuzzingWorker: return when the cycle context is already
\* cancelled, otherwise enter worker.Main (which defers close(doneChan))
WorkerStart(c) ==
    /\ Alive
    /\ w[c].pc = "spawned"
    /\ w' = [w EXCEPT ![c].pc = IF CtxDone(c) THEN "returned" ELSE "clone"]
    /\ UNCHANGED <<schedPc, cycle, rootDone, cycleDone, doneClosed, procExited>>
    /\ UNCHANGED <<pvars, lvars, svars, rvars>>

\* git.CloneRepositories(ctx, ...): fails when a clone fails or the context
\* is cancelled, otherwise RunFuzzing starts with the first package
CloneRepositories(c) ==
    /\ Alive
    /\ w[c].pc = "clone"
    /\ \E ok \in BOOLEAN :
          /\ ok => ~CtxDone(c)
          /\ w' = [w EXCEPT ![c] =
                     IF ok THEN [@ EXCEPT !.pc = "pkgLoop", !.pkg = 1]
                           ELSE Failed(@, "clone", CtxDone(c))]
    /\ UNCHANGED <<schedPc, cycle, rootDone, cycleDone, doneClosed, procExited>>
    /\ UNCHANGED <<pvars, lvars, svars, rvars>>

MainError_Return(c) ==
    /\ Alive
    /\ w[c].pc = "mainErr"
    /\ w' = [w EXCEPT ![c].pc = "mainReturn"]
    /\ UNCHANGED <<schedPc, cycle, rootDone, cycleDone, doneClosed, procExited>>
    /\ UNCHANGED <<pvars, lvars, svars, rvars>>
\* the error branches of Main: logger.Error, config.PerformCleanup, os.Exit(1).
\* os.Exit ends the process at once; deferred calls do not run.
MainError(c) ==
    /\ Alive
    /\ w[c].pc = "mainErr"
    /\ w' = [w EXCEPT ![c].pc = "exited"]
    /\ procExited' = TRUE
    /\ UNCHANGED <<schedPc, cycle, rootDone, cycleDone, doneClosed>>
    /\ UNCHANGED <<pvars, lvars, svars, rvars>>

\* Main returns normally: the deferred close(doneChan) runs and the goroutine
\* ends, its locals with it
MainReturn(c) ==
    /\ Alive
    /\ w[c].pc = "mainReturn"
    /\ doneClosed' = [doneClosed EXCEPT ![c] = @ + 1]
    /\ w' = [w EXCEPT ![c] = [NoWorker EXCEPT !.pc = "returned",
                                             !.midRun = w[c].midRun]]
    /\ UNCHANGED <<schedPc, cycle, rootDone, cycleDone, procExited>>
    /\ UNCHANGED <<pvars, lvars, svars, rvars>>

(***************************************************************************)
(* fuzz.RunFuzzing, listFuzzTargets, executeFuzzTarget, streamOutput.      *)
(***************************************************************************)
NextTarget_AlwaysLaunch(r, t) == [r EXCEPT !.pc = "launch", !.tgt = t + 1]
\* the position after the targets up to t of the current package are done:
\* the next target, or the head of the package loop with the next package
NextTarget(r, t) ==
    IF t < r.ntgts
    THEN [r EXCEPT !.pc = "launch", !.tgt = t + 1]
    ELSE [r EXCEPT !.pc = "pkgLoop", !.pkg = @ + 1, !.tgt = 0, !.ntgts = 0]

\* for _, pkg := range cfg.FuzzPkgs { select { case <-ctx.Done(): return nil
RunFuzzingLoop(c) ==
    /\ Alive
    /\ w[c].pc = "pkgLoop"
    /\ w' = [w EXCEPT ![c].pc =
                IF w[c].pkg > NumPkgs \/ CtxDone(c) THEN "mainReturn"
                                                     ELSE "listStart"]
    /\ UNCHANGED <<schedPc, cycle, rootDone, cycleDone, doneClosed, procExited>>
    /\ UNCHANGED <<pvars, lvars, svars, rvars>>

\* listFuzzTargets up to the start of "go test -list": cmd.Run fails at once
\* when the context is cancelled or the command cannot be started
ListStart(c) ==
    /\ Alive
    /\ w[c].pc = "listStart"
    /\ \E started \in BOOLEAN :
          /\ started => ~CtxDone(c)
          /\ w' = [w EXCEPT ![c] =
                     IF started THEN [@ EXCEPT !.pc = "listing", !.sub = "running"]
                                ELSE Failed(@, "list", CtxDone(c))]
    /\ UNCHANGED <<schedPc, cycle, rootDone, cycleDone, doneClosed, procExited>>
    /\ UNCHANGED <<pvars, lvars, svars, rvars>>

\* the subprocess ends on its own, with or without an error status
SubExit(c) ==
    /\ Alive
    /\ w[c].sub = "running"
    /\ \E st \in {"exitedOk", "exitedFail"} : w' = [w EXCEPT ![c].sub = st]
    /\ UNCHANGED <<schedPc, cycle, rootDone, cycleDone, doneClosed, procExited>>
    /\ UNCHANGED <<pvars, lvars, svars, rvars>>

\* exec.CommandContext: the subprocess is killed once its context is done
SubKill_NoContext(c) ==
    /\ FALSE
    /\ UNCHANGED <<vars, lvars, svars, rvars>>
    /\ UNCHANGED <<pvars, lvars, svars, rvars>>
SubKill(c) ==
    /\ Alive
    /\ w[c].sub = "running"
    /\ CtxDone(c)
    /\ w' = [w EXCEPT ![c].sub = "killed"]
    /\ UNCHANGED <<schedPc, cycle, rootDone, cycleDone, doneClosed, procExited>>
    /\ UNCHANGED <<pvars, lvars, svars, rvars>>

\* listFuzzTargets after cmd.Run returned: an error status is an error, a
\* clean exit yields n targets (none: a warning, the package is skipped)
ListFinish(c) ==
    /\ Alive
    /\ w[c].pc = "listing"
    /\ w[c].sub \in {"exitedOk", "exitedFail", "killed"}
    /\ IF w[c].sub = "exitedOk"
       THEN \E n \in 0..MaxTargets :
               w' = [w EXCEPT ![c] = NextTarget([@ EXCEPT !.ntgts = n], 0)]
       ELSE w' = [w EXCEPT ![c] = Failed(@, "list", CtxDone(c))]
    /\ UNCHANGED <<schedPc, cycle, rootDone, cycleDone, doneClosed, procExited>>
    /\ UNCHANGED <<pvars, lvars, svars, rvars>>

\* how executeFuzzTarget can get on up to cmd.Start: os.Pipe fails in
\* cmd.StdoutPipe, or in cmd.StderrPipe, or cmd.Start fails, or the
\* subprocess runs
LaunchOutcomes == {"stdoutPipe", "stderrPipe", "start", "started"}

\* the pipes left open when executeFuzzTarget returns an error before the
\* subprocess runs.  A failed StdoutPipe made nothing.  A failed StderrPipe
\* comes after StdoutPipe made its pipe, and the return that follows closes
\* nothing.  A failed cmd.Start closes every descriptor the Cmd holds.
OpenAfterFailure(out) == IF out = "stderrPipe" THEN {"stdout"} ELSE {}

\* executeFuzzTarget up to cmd.Start and the two "go streamOutput": Start
\* fails at once when the context is cancelled or the command cannot start
Launch(c) ==
    /\ Alive
    /\ w[c].pc = "launch"
    /\ \E out \in LaunchOutcomes :
          /\ out = "started" => ~CtxDone(c)
          /\ w' = [w EXCEPT ![c] =
                     IF out = "started"
                     THEN [@ EXCEPT !.pc = "draining", !.sub = "running",
                                    !.ran = @ + 1, !.readers = {},
                                    !.pipes = Streams]
                     ELSE Failed([@ EXCEPT !.pipes = OpenAfterFailure(out)],
                                 out, CtxDone(c))]
    /\ UNCHANGED <<schedPc, cycle, rootDone, cycleDone, doneClosed, procExited>>
    /\ UNCHANGED <<pvars, lvars, svars, rvars>>

\* streamOutput: scanner.Scan returns false at the end of the stream, which
\* the exit of the subprocess brings about; the deferred wg.Done runs
StreamOutput(c, s) ==
    /\ Alive
    /\ w[c].pc = "draining"
    /\ w[c].sub \in {"exitedOk", "exitedFail", "killed"}
    /\ s \notin w[c].readers
    /\ w' = [w EXCEPT ![c].readers = @ \cup {s}]
    /\ UNCHANGED <<schedPc, cycle, rootDone, cycleDone, doneClosed, procExited>>
    /\ UNCHANGED <<pvars, lvars, svars, rvars>>

WgWait_NoBarrier(r) == TRUE
\* wg.Add(2) ... wg.Wait(): returns once both streamOutput goroutines have
\* called wg.Done
WgWait(r) == r.readers = Streams

ExecResult_NoSuppress(waitErr, ctxDone) == IF waitErr THEN "exec" ELSE "none"
\* if err := cmd.Wait(); err != nil && ctx.Err() == nil { return error }
ExecResult(waitErr, ctxDone) == IF waitErr /\ ~ctxDone THEN "exec" ELSE "none"

\* wg.Wait() and cmd.Wait() of executeFuzzTarget, and its return to the
\* target loop of RunFuzzing
WaitExit(c) ==
    /\ Alive
    /\ w[c].pc = "draining"
    /\ WgWait(w[c])
    /\ w[c].sub \in {"exitedOk", "exitedFail", "killed"}
    /\ LET res == ExecResult(w[c].sub # "exitedOk", CtxDone(c))
           \* cmd.Wait closes the parent's ends of both pipes
           closed == [w[c] EXCEPT !.pipes = {}]
       IN  w' = [w EXCEPT ![c] =
                   IF res = "none" THEN NextTarget(closed, closed.tgt)
                                   ELSE Failed(closed, res, CtxDone(c))]
    /\ UNCHANGED <<schedPc, cycle, rootDone, cycleDone, doneClosed, procExited>>
    /\ UNCHANGED <<pvars, lvars, svars, rvars>>

(***************************************************************************)
(* The program.                                                            *)
(***************************************************************************)
Next ==
    \/ RootCancel
    \/ LoopHead
    \/ StartCycle
    \/ SelectElapsed
    \/ SelectRootDone
    \/ WaitDone
    \/ CleanupWorkspace
    \/ \E c \in Cycles : WorkerStart(c)
    \/ \E c \in Cycles : CloneRepositories(c)
    \/ \E c \in Cycles : MainError(c)
    \/ \E c \in Cycles : MainReturn(c)
    \/ \E c \in Cycles : RunFuzzingLoop(c)
    \/ \E c \in Cycles : ListStart(c)
    \/ \E c \in Cycles : SubExit(c)
    \/ \E c \in Cycles : SubKill(c)
    \/ \E c \in Cycles : ListFinish(c)
    \/ \E c \in Cycles : Launch(c)
    \/ \E c \in Cycles, s \in Streams : StreamOutput(c, s)
    \/ \E c \in Cycles : WaitExit(c)

Spec == Init /\ [][Next]_vars

\* Scheduling: the Go runtime runs every goroutine that can run and the
\* operating system delivers the kill of a cancelled command.  Nothing is
\* assumed about the signal, the timer or the moment a subprocess ends of
\* its own accord.
Fairness ==
    /\ WF_vars(LoopHead) /\ WF_vars(StartCycle) /\ WF_vars(SelectRootDone)
    /\ WF_vars(WaitDone) /\ WF_vars(CleanupWorkspace)
    /\ \A c \in Cycles :
          /\ WF_vars(WorkerStart(c)) /\ WF_vars(CloneRepositories(c))
          /\ WF_vars(MainError(c)) /\ WF_vars(MainReturn(c))
          /\ WF_vars(RunFuzzingLoop(c)) /\ WF_vars(ListStart(c))
          /\ WF_vars(SubKill(c)) /\ WF_vars(ListFinish(c))
          /\ WF_vars(Launch(c)) /\ WF_vars(WaitExit(c))
          /\ \A s \in Streams : WF_vars(StreamOutput(c, s))

FairSpec == Spec /\ Fairness

(***************************************************************************)
(* package parser: FuzzProcessor and FileLogWriter.                        *)
(***************************************************************************)
\* strings.Contains(line, piece) for a literal piece
Contains(line, piece) == \E i \in 1..Len(line) : line[i] = piece

\* the positions at which fuzzFailureRegex matches: one of the two prefixes,
\* a target without "/", a "/" and a hexadecimal id
MatchAt(line) ==
    { i \in 1..Len(line) :
        /\ line[i] \in {SeedPrefix, WrittenPrefix}
        /\ i + 3 <= Len(line)
        /\ line[i + 1] \notin {"/", ""}
        /\ line[i + 2] = "/"
        /\ line[i + 3] \in HexIds }

parseFailureLine_Default(line) ==
    IF MatchAt(line) = {}
    THEN <<"FuzzFoo", "abc123">>
    ELSE LET i == CHOOSE k \in MatchAt(line) : \A j \in MatchAt(line) : k <= j
         IN  <<line[i + 1], line[i + 3]>>
\* parseFailureLine: target and id of the leftmost match, or two empty strings
parseFailureLine(line) ==
    IF MatchAt(line) = {}
    THEN <<"", "">>
    ELSE LET i == CHOOSE k \in MatchAt(line) : \A j \in MatchAt(line) : k <= j
         IN  <<line[i + 1], line[i + 3]>>

readInputData_HeaderOnly(target, id) ==
    <<NL, NL, "=== Failing testcase (", target, "/", id, ") ===", NL>>
\* readInputData: the formatted contents of the corpus file, or the
\* placeholder naming the path and the read error
readInputData(target, id) ==
    LET r == ReadFile(target, id)
    IN  IF r.ok
        THEN <<NL, NL, "=== Failing testcase (", target, "/", id, ") ===", NL>>
                 \o r.data
        ELSE <<NL, "<< failed to read ", target, "/", id, ": ">> \o r.data
                 \o <<" >>", NL>>

IsMarker_AnyLine(line) == TRUE
\* handleFailureDetection: strings.Contains(line, "--- FAIL:")
IsMarker(line) == Contains(line, FailMarker)

SeenAfter_Recompute(seen, line) == IsMarker(line)
\* processLine / handleFailureDetection: SeenFailure after the detection step
SeenAfter(seen, line) == seen \/ IsMarker(line)

NeedsInit_EveryMarker(seen, line) == IsMarker(line)
\* processLine / handleFailureDetection: logWriter.Initialize is called for a
\* marker line met while SeenFailure is false
NeedsInit(seen, line) == ~seen /\ IsMarker(line)

RecordsLine_AfterMarker(seenBefore, seenNow) == seenBefore
\* processLine: the second "if fp.State.SeenFailure" reads the flag after the
\* detection step has run, so it holds for the marker line too
RecordsLine(seenBefore, seenNow) == seenNow

Create_Append(file) == [exists |-> TRUE, data |-> file.data]
\* FileLogWriter.Initialize: os.Create makes the file, or truncates the one
\* that exists
Create(file) == [exists |-> TRUE, data |-> << >>]

PrintedAfterRead_IfRead(ok) == ok
\* handleFailureLine: InputPrinted = true follows readInputData, which
\* returns no error whether or not os.ReadFile succeeded
PrintedAfterRead(ok) == TRUE

Extracts_Always(printed) == TRUE
\* handleFailureLine: "if fp.State.InputPrinted { return nil }"
Extracts(printed) == ~printed

NewFuzzProcessor_Reuse(t) ==
    /\ pPc \in {"idle", "done"}
    /\ pLog.run < MaxRuns
    /\ pPc' = "reading"
    /\ fp' = [fp EXCEPT !.target = t]
    /\ pLines' = << >>
    /\ pLog' = NoLog(pLog.run + 1, pLog.total, disk[LogPath(t)].data # << >>)
    /\ IF pLog.run = 0 THEN corpus' \in CorpusContents ELSE UNCHANGED corpus
    /\ UNCHANGED disk
    /\ UNCHANGED <<vars, lvars, svars, rvars>>
\* NewFuzzProcessor(logger, cfg, corpusPath, target), at the start of the
\* execution of a target
NewFuzzProcessor(t) ==
    /\ pPc \in {"idle", "done"}
    /\ pLog.run < MaxRuns
    /\ pPc' = "reading"
    /\ fp' = NewProcessor(t)
    /\ pLines' = << >>
    /\ pLog' = NoLog(pLog.run + 1, pLog.total, disk[LogPath(t)].data # << >>)
    \* a corpus file is named by the hash of its bytes: what the first
    \* execution finds under that name, every later one finds too
    /\ IF pLog.run = 0 THEN corpus' \in CorpusContents ELSE UNCHANGED corpus
    /\ UNCHANGED disk
    /\ UNCHANGED <<vars, lvars, svars, rvars>>

\* One iteration of the loop of ProcessStream: scanner.Scan delivers a line
\* and processLine handles it.  createOk: os.Create succeeds; writeOk: the
\* write to an open file succeeds.
ProcessLine(line, createOk, writeOk) ==
    LET path     == LogPath(fp.target)
        doInit   == NeedsInit(fp.SeenFailure, line)
        seen     == SeenAfter(fp.SeenFailure, line)
        created  == doInit /\ createOk
        \* handleFailureDetection returned an error: processLine returns
        initErr  == doInit /\ ~createOk
        file1    == IF created THEN "open" ELSE fp.file
        onDisk1  == IF created THEN Create(disk[path]) ELSE disk[path]
        \* handleFailureLine is entered
        records  == ~initErr /\ RecordsLine(fp.SeenFailure, seen)
        absent   == records /\ file1 = "nil"
        failed   == records /\ file1 # "nil" /\ ~writeOk
        written  == records /\ file1 # "nil" /\ writeOk
        data2    == IF written
                    THEN onDisk1.data \o line \o <<NL>>
                    ELSE onDisk1.data
        parsed   == parseFailureLine(line)
        captures == /\ written
                    /\ Extracts(fp.InputPrinted)
                    /\ parsed[1] # "" /\ parsed[2] # ""
        readOk   == ReadFile(parsed[1], parsed[2]).ok
    IN  /\ pPc = "reading"
        /\ pLog.total < MaxLines
        /\ pLines' = Append(pLines, line)
        /\ fp' = [fp EXCEPT
                    !.SeenFailure = seen,
                    !.file = file1,
                    !.ErrorData = IF captures
                                  THEN readInputData(parsed[1], parsed[2])
                                  ELSE @,
                    !.InputPrinted = @ \/ (captures /\ PrintedAfterRead(readOk))]
        /\ disk' = [disk EXCEPT ![path] = [onDisk1 EXCEPT !.data = data2]]
        /\ pLog' = [pLog EXCEPT
                    !.total = @ + 1,
                    !.inits = @ + (IF doInit THEN 1 ELSE 0),
                    !.creates = @ + (IF created THEN 1 ELSE 0),
                    !.absentOps = @ + (IF absent THEN 1 ELSE 0),
                    !.writeFails = @ + (IF failed THEN 1 ELSE 0),
                    !.lineErrs = @ + (IF initErr \/ absent \/ failed THEN 1 ELSE 0),
                    !.reads = @ + (IF captures THEN 1 ELSE 0),
                    !.captured = IF captures THEN Len(pLines) + 1 ELSE @]
        /\ UNCHANGED <<pPc, corpus>>
        /\ UNCHANGED <<vars, lvars, svars, rvars>>

Finalizes_OnlyAtEof(how) == how = "eof"
\* ProcessStream after its loop: the deferred Close is registered and run
\* whatever made scanner.Scan return false
Finalizes(how) == TRUE

\* scanner.Scan returns false, at the end of the stream or on a read error;
\* ProcessStream runs logWriter.Close(fp.State.ErrorData) and returns.
\* Close: WriteErrorData(errorData), and fl.file.Close() if that succeeded.
StreamEnd(how, writeOk) ==
    LET path    == LogPath(fp.target)
        closing == Finalizes(how)
        absent  == closing /\ fp.file = "nil"
        written == closing /\ fp.file = "open" /\ writeOk
        failed  == closing /\ fp.file = "open" /\ ~writeOk
    IN  /\ pPc = "reading"
        /\ pPc' = "done"
        /\ disk' = IF written
                   THEN [disk EXCEPT ![path].data = @ \o fp.ErrorData \o <<NL>>]
                   ELSE disk
        /\ fp' = IF written THEN [fp EXCEPT !.file = "closed"] ELSE fp
        /\ pLog' = [pLog EXCEPT
                    !.end = how,
                    !.closes = @ + (IF closing THEN 1 ELSE 0),
                    !.absentOps = @ + (IF absent THEN 1 ELSE 0),
                    !.final = IF written THEN "ok"
                              ELSE IF absent THEN "absent"
                              ELSE IF failed THEN "failed" ELSE "none"]
        /\ UNCHANGED <<pLines, corpus>>
        /\ UNCHANGED <<vars, lvars, svars, rvars>>

ParserNext ==
    \/ \E t \in TargetNames : NewFuzzProcessor(t)
    \/ \E line \in OutputLines, createOk \in BOOLEAN, writeOk \in BOOLEAN :
          ProcessLine(line, createOk, writeOk)
    \/ \E how \in {"eof", "readErr"}, writeOk \in BOOLEAN : StreamEnd(how, writeOk)

ParserSpec == Init /\ [][ParserNext]_pvars

(***************************************************************************)
(* The two readers of one fuzz subprocess: executeFuzzTarget starts one    *)
(* goroutine for stdout and one for stderr and waits for both.             *)
(***************************************************************************)
\* the reader of stdout hands each line it logs to the failure detector
StdoutLine(line, createOk, writeOk) == ProcessLine(line, createOk, writeOk)

\* the reader of stdout at the end of its stream: the detector is finalized
StdoutEnd(how, writeOk) == StreamEnd(how, writeOk)

\* go streamOutput(logger.With("target", target), "stderr", &wg, stderr):
\* the goroutine starts to run, some time after the go statement
StderrStart ==
    /\ pPc # "idle"
    /\ errPc = "idle"
    /\ errPc' = "reading"
    /\ UNCHANGED errLines
    /\ UNCHANGED <<vars, pvars, lvars, svars>>

StderrLine_Detects(line) ==
    /\ errPc = "reading"
    /\ pLog.total + Len(errLines) < MaxStreamLines
    /\ errLines' = Append(errLines, line)
    /\ fp' = [fp EXCEPT !.SeenFailure = SeenAfter(@, line)]
    /\ UNCHANGED <<errPc, pPc, disk, pLines, pLog, corpus>>
    /\ UNCHANGED <<vars, lvars, svars>>
\* streamOutput for stderr, one iteration of its loop: scanner.Scan delivers
\* a line and logger.Info logs it
StderrLine(line) ==
    /\ errPc = "reading"
    /\ pLog.total + Len(errLines) < MaxStreamLines
    /\ errLines' = Append(errLines, line)
    /\ UNCHANGED errPc
    /\ UNCHANGED <<vars, pvars, lvars, svars>>

\* streamOutput for stderr: scanner.Scan returns false, the deferred
\* wg.Done runs
StderrEnd ==
    /\ errPc = "reading"
    /\ errPc' = "done"
    /\ UNCHANGED errLines
    /\ UNCHANGED <<vars, pvars, lvars, svars>>

\* one execution of one target, its two readers interleaved in any order
ReaderNext ==
    \/ pLog.run = 0 /\ \E t \in TargetNames : NewFuzzProcessor(t)
    \/ /\ pLog.total + Len(errLines) < MaxStreamLines
       /\ \E line \in OutputLines, createOk \in BOOLEAN, writeOk \in BOOLEAN :
             StdoutLine(line, createOk, writeOk)
    \/ \E how \in {"eof", "readErr"}, writeOk \in BOOLEAN : StdoutEnd(how, writeOk)
    \/ StderrStart
    \/ \E line \in OutputLines : StderrLine(line)
    \/ StderrEnd

ReaderSpec == Init /\ [][ReaderNext]_<<pvars, rvars>>

(***************************************************************************)
(* fuzz.listFuzzTargets: the parsing of the output of "go test -list".     *)
(* The output is a sequence of pieces: the prefix "Fuzz", other letters,   *)
(* a blank and the newline.                                                *)
(***************************************************************************)
\* what the listing command may write
ListPieces == {"Fuzz", "A", "B", " ", NL}

\* the pieces strings.TrimSpace removes
WhiteSpace == {" ", NL}

\* strings.Split(s, "\n"): the pieces between the newlines, one field more
\* than there are newlines
RECURSIVE Split(_)
Split(s) ==
    IF \A i \in 1..Len(s) : s[i] # NL
    THEN <<s>>
    ELSE LET i == CHOOSE k \in 1..Len(s) :
                     s[k] = NL /\ \A j \in 1..(k - 1) : s[j] # NL
         IN  <<SubSeq(s, 1, i - 1)>> \o Split(SubSeq(s, i + 1, Len(s)))

\* strings.TrimSpace(line): without its leading and trailing white space
RECURSIVE TrimSpace(_)
TrimSpace(line) ==
    IF line = << >> THEN << >>
    ELSE IF line[1] \in WhiteSpace THEN TrimSpace(Tail(line))
    ELSE IF line[Len(line)] \in WhiteSpace
         THEN TrimSpace(SubSeq(line, 1, Len(line) - 1))
    ELSE line

\* strings.HasPrefix(cleanLine, "Fuzz")
HasPrefix(cleanLine) == cleanLine # << >> /\ cleanLine[1] = "Fuzz"

AppendTarget_Front(found, cleanLine) == <<cleanLine>> \o found
\* targets = append(targets, cleanLine)
AppendTarget(found, cleanLine) == Append(found, cleanLine)

\* the loop of listFuzzTargets over the lines from the i-th onward
RECURSIVE CollectTargets(_, _, _)
CollectTargets(lines, i, found) ==
    IF i > Len(lines)
    THEN found
    ELSE LET cleanLine == TrimSpace(lines[i])
         IN  CollectTargets(lines, i + 1,
                            IF HasPrefix(cleanLine)
                            THEN AppendTarget(found, cleanLine)
                            ELSE found)

\* listFuzzTargets after a successful cmd.Run
listFuzzTargets(out) == CollectTargets(Split(out), 1, << >>)

\* the listing command writes one more piece to its standard output
ListWrite(piece) ==
    /\ listPc = "running"
    /\ Len(stdout) < MaxOutput
    /\ stdout' = Append(stdout, piece)
    /\ UNCHANGED <<listPc, targets>>
    /\ UNCHANGED <<vars, pvars, svars, rvars>>

\* cmd.Run returns without error and listFuzzTargets returns its targets
ListReturn ==
    /\ listPc = "running"
    /\ listPc' = "returned"
    /\ targets' = listFuzzTargets(stdout)
    /\ UNCHANGED stdout
    /\ UNCHANGED <<vars, pvars, svars, rvars>>

ListNext ==
    \/ \E piece \in ListPieces : ListWrite(piece)
    \/ ListReturn

ListSpec == Init /\ [][ListNext]_lvars

(***************************************************************************)
(* package config and main: LoadEnv, LoadConfig, calculateProcessCount.    *)
(* The value of an environment variable is a sequence of characters.       *)
(***************************************************************************)
Digits == <<"0", "1", "2", "3", "4", "5", "6", "7", "8", "9">>

IsDigit(ch) == \E d \in 1..10 : Digits[d] = ch

DigitValue(ch) == (CHOOSE d \in 1..10 : Digits[d] = ch) - 1

\* the number a sequence of digits denotes
RECURSIVE Decimal(_)
Decimal(ds) ==
    IF ds = << >>
    THEN 0
    ELSE Decimal(SubSeq(ds, 1, Len(ds) - 1)) * 10 + DigitValue(ds[Len(ds)])

\* strconv.Atoi: an optional sign followed by one digit or more
Atoi(str) ==
    LET signed == str # << >> /\ str[1] \in {"-", "+"}
        ds     == IF signed THEN Tail(str) ELSE str
        ok     == ds # << >> /\ \A i \in 1..Len(ds) : IsDigit(ds[i])
    IN  [ok  |-> ok,
         num |-> IF ~ok THEN 0
                 ELSE IF signed /\ str[1] = "-" THEN 0 - Decimal(ds)
                 ELSE Decimal(ds)]

\* the digits of a natural number
RECURSIVE Itoa(_)
Itoa(n) ==
    IF n < 10 THEN <<Digits[n + 1]>>
    ELSE Itoa(n \div 10) \o <<Digits[(n % 10) + 1]>>

\* fmt.Sprintf("%ds", seconds)
SecondsText(seconds) ==
    (IF seconds < 0 THEN <<"-">> \o Itoa(0 - seconds) ELSE Itoa(seconds))
        \o <<"s">>

\* time.ParseDuration for a text of whole seconds: a number and the unit
ParseDuration(str) ==
    /\ str # << >>
    /\ str[Len(str)] = "s"
    /\ Atoi(SubSeq(str, 1, Len(str) - 1)).ok

\* strings.Fields: the pieces between blanks
RECURSIVE Fields(_)
Fields(str) ==
    IF str = << >> THEN << >>
    ELSE IF str[1] = " " THEN Fields(Tail(str))
    ELSE LET stops == { i \in 1..Len(str) : str[i] = " " }
             n     == IF stops = {} THEN Len(str)
                      ELSE (CHOOSE i \in stops : \A j \in stops : i <= j) - 1
         IN  <<SubSeq(str, 1, n)>> \o Fields(SubSeq(str, n + 1, Len(str)))

calculateProcessCount_NoCap(envVal, numCPU) ==
    IF envVal # << >> /\ Atoi(envVal).ok /\ Atoi(envVal).num > 0
    THEN Atoi(envVal).num
    ELSE numCPU
\* calculateProcessCount, envVal being os.Getenv("FUZZ_NUM_PROCESSES")
calculateProcessCount(envVal, numCPU) ==
    IF envVal # << >> /\ Atoi(envVal).ok /\ Atoi(envVal).num > 0
    THEN IF Atoi(envVal).num > numCPU THEN numCPU ELSE Atoi(envVal).num
    ELSE numCPU

Missing_Never(value) == FALSE
\* LoadConfig: cfg.ProjectSrcPath == "", cfg.GitStorageRepo == "",
\* fuzzPkgs == ""
Missing(value) == value = << >>

\* LoadConfig: the Config and no error, or nil and the error
LoadConfig(e) ==
    LET fail(kind) == [cfg |-> NilConfig, err |-> kind]
        seconds    == Atoi(e.FUZZ_TIME)
    IN  IF Missing(e.PROJECT_SRC_PATH) THEN fail("PROJECT_SRC_PATH")
        ELSE IF Missing(e.GIT_STORAGE_REPO) THEN fail("GIT_STORAGE_REPO")
        ELSE IF ~e.mkdirOk THEN fail("mkdir")
        ELSE IF e.FUZZ_TIME # << >> /\ ~seconds.ok THEN fail("FUZZ_TIME")
        ELSE IF Missing(e.FUZZ_PKG) THEN fail("FUZZ_PKG")
        ELSE [cfg |-> [nil |-> FALSE,
                       ProjectSrcPath |-> e.PROJECT_SRC_PATH,
                       GitStorageRepo |-> e.GIT_STORAGE_REPO,
                       FuzzPkgs |-> Fields(e.FUZZ_PKG),
                       FuzzTime |-> IF e.FUZZ_TIME # << >>
                                    THEN SecondsText(seconds.num)
                                    ELSE <<"1", "2", "0", "s">>,
                       NumProcesses |->
                           calculateProcessCount(e.FUZZ_NUM_PROCESSES,
                                                 e.NumCPU)],
              err |-> "none"]

\* the characters a numeric variable is made of in the environments examined
NumChars == {"-", "+", "0", "1", "3", "x"}

\* the values of FUZZ_NUM_PROCESSES examined
NumTexts ==
    UNION { [1..n -> NumChars] : n \in 0..MaxDigits }

\* the environments examined
Environments ==
    [PROJECT_SRC_PATH : {<< >>, <<"u">>},
     GIT_STORAGE_REPO : {<< >>, <<"g">>},
     FUZZ_PKG : {<< >>, <<"p", " ", "q">>},
     FUZZ_TIME : {<< >>, <<"0", "2", "0">>, <<"x">>, <<"-", "3">>},
     FUZZ_NUM_PROCESSES : NumTexts,
     NumCPU : 1..MaxCPU,
     mkdirOk : BOOLEAN]

\* main: logger.Error(...); os.Exit(1)
ExitWithError(kind) ==
    /\ mainPc' = "exited"
    /\ startLog' = [startLog EXCEPT !.errors = @ + 1, !.err = kind,
                                     !.exit = 1]

\* config.LoadEnv(): the variables of .env, if there is one, join those of
\* the process; main exits when the file cannot be loaded
LoadEnv ==
    /\ mainPc = "start"
    /\ \E ok \in BOOLEAN :
          IF ok
          THEN /\ env' \in Environments
               /\ mainPc' = "loadConfig"
               /\ UNCHANGED startLog
          ELSE /\ ExitWithError("LoadEnv")
               /\ UNCHANGED env
    /\ UNCHANGED cfg
    /\ UNCHANGED <<vars, pvars, lvars, rvars>>

\* cfg, err := config.LoadConfig(); main exits on an error
LoadConfigStep ==
    /\ mainPc = "loadConfig"
    /\ LET res == LoadConfig(env)
       IN  /\ cfg' = res.cfg
           /\ IF res.err = "none"
              THEN mainPc' = "loaded" /\ UNCHANGED startLog
              ELSE ExitWithError(res.err)
    /\ UNCHANGED env
    /\ UNCHANGED <<vars, pvars, lvars, rvars>>

\* time.ParseDuration(cfg.FuzzTime), then runFuzzingCycles(...)
StartCycles ==
    /\ mainPc = "loaded"
    /\ IF ParseDuration(cfg.FuzzTime)
       THEN /\ mainPc' = "cycles"
            /\ startLog' = [startLog EXCEPT !.cycles = @ + 1]
       ELSE ExitWithError("ParseDuration")
    /\ UNCHANGED <<env, cfg>>
    /\ UNCHANGED <<vars, pvars, lvars, rvars>>

StartupNext ==
    \/ LoadEnv
    \/ LoadConfigStep
    \/ StartCycles

StartupSpec == Init /\ [][StartupNext]_svars

(***************************************************************************)
(* Properties.                                                             *)
(***************************************************************************)
InCleanup == schedPc \in {"cleanupElapsed", "cleanupRoot"}
\* a worker goroutine ended, by returning or by os.Exit
WorkerEnded(c) == w[c].pc \in {"returned", "exited"}
\* the scheduler waits on a doneChan that nobody will close any more
Stuck == /\ schedPc \in {"waitElapsed", "waitRoot"}
         /\ w[cycle].pc = "returned"
         /\ doneClosed[cycle] = 0

\* C1: while RunFuzzingCycles performs its post-cycle cleanup, in the elapsed
\* branch as in the root-cancellation branch, the worker of that cycle is no
\* longer in flight and its doneChan has been closed.
C1_CleanupAfterWorker ==
    InCleanup => (~WorkerActive(cycle) /\ doneClosed[cycle] > 0)

\* the first cycle elapsed while a target ran and its worker completed; the
\* second is in its final cleanup after its worker went through Main
C1_Witness ==
    /\ schedPc = "cleanupRoot" /\ cycle = 2
    /\ w[1].midRun /\ doneClosed[1] = 1 /\ doneClosed[2] = 1

\* C2: a worker that has ended, on whatever exit path, has closed its
\* doneChan exactly once.
C2_ClosedExactlyOnce ==
    \A c \in Cycles : WorkerEnded(c) => doneClosed[c] = 1

\* C3: after root cancellation the scheduler never waits on a completion
\* signal that will not come.
C3_NeverBlocksForever ==
    ~(rootDone /\ schedPc = "waitRoot" /\ Stuck)

C5_ScenarioD ==
    \A c \in Cycles : w[c].midRun => (w[c].err = "none" /\ w[c].pc # "exited")

C7_SuppressIffCancelled ==
    [][\A c \in Cycles :
          (w[c].pc = "draining" /\ w'[c].pc # "draining" /\ w[c].sub # "exitedOk")
              => /\ (w'[c].err = "exec") <=> ~cycleDone[c]
                 /\ (w'[c].pc = "mainErr") <=> ~cycleDone[c]]_vars

\* the subprocess of the first target was killed after the cycle was
\* cancelled, executeFuzzTarget returned nil and the target loop went on
C7_Witness ==
    \E c \in Cycles :
        /\ w[c].pc = "launch" /\ w[c].tgt = 2 /\ w[c].sub = "killed"
        /\ w[c].err = "none" /\ cycleDone[c]

\* C8: at most one worker goroutine is active at any time.
C8_AtMostOneWorker ==
    Cardinality({c \in Cycles : WorkerActive(c)}) <= 1

\* the worker of the second cycle runs a target, the first one has ended
C8_Witness ==
    cycle = 2 /\ w[2].pc = "draining" /\ w[1].pc = "returned"

\* C9: once the root is cancelled every cycle context created so far is
\* cancelled, and the cancelCycle of an elapsed cycle leaves the root as it is.
C9_CancellationFlowsDown ==
    /\ [](rootDone => \A c \in 1..cycle : cycleDone[c])
    /\ [][(schedPc = "select" /\ schedPc' = "waitElapsed")
              => rootDone' = rootDone]_vars

\* a second cycle was started after the first was cancelled, and the root's
\* cancellation reached its context while the scheduler is still in select
C9_Witness ==
    /\ cycle = 2 /\ cycleDone[1] /\ w[1].pc = "returned"
    /\ rootDone /\ cycleDone[2] /\ schedPc = "select"

\* C10: while the root is not cancelled the process is running and the
\* scheduler is not blocked for ever, so that another cycle can follow.
C10_KeepsCycling ==
    ~rootDone => (~procExited /\ ~Stuck)

\* C11: executeFuzzTarget leaves its wait on the readers and the subprocess
\* only when both readers, stdout and stderr and no other, have finished.
C11_ReadersBeforeWait ==
    /\ [](\A c \in Cycles : w[c].readers \subseteq Streams /\ Cardinality(Streams) = 2)
    /\ [][\A c \in Cycles :
             (w[c].pc = "draining" /\ w'[c].pc # "draining")
                 => w[c].readers = {"stdout", "stderr"}]_vars

\* the first target was waited for after both readers finished, the target
\* loop is at the second
C11_Witness ==
    \E c \in Cycles :
        /\ w[c].pc = "launch" /\ w[c].tgt = 2
        /\ w[c].readers = Streams /\ w[c].sub = "exitedOk"

\* C12: at no time are two fuzz subprocesses running.
C12_SequentialRuns ==
    Cardinality({c \in Cycles : w[c].pc = "draining" /\ w[c].sub = "running"}) <= 1

\* the second target of a package runs in the second cycle, after a target
\* of the first cycle was running when that cycle elapsed
C12_Witness ==
    /\ cycle = 2 /\ w[2].pc = "draining" /\ w[2].sub = "running" /\ w[2].tgt = 2
    /\ w[1].midRun /\ ~WorkerActive(1)

\* C13: once the context is cancelled while a fuzz target is being drained,
\* executeFuzzTarget eventually returns and the worker eventually ends.
C13_CancelledRunEnds ==
    \A c \in Cycles :
        /\ (cycleDone[c] /\ w[c].pc = "draining") ~> (w[c].pc # "draining")
        /\ (cycleDone[c] /\ w[c].pc = "draining") ~> WorkerEnded(c)

\* the subprocess was killed after the cancellation and both readers have
\* seen the end of their stream
C13_Witness ==
    \E c \in Cycles :
        /\ cycleDone[c] /\ w[c].pc = "draining"
        /\ w[c].sub = "killed" /\ w[c].readers = Streams

(***************************************************************************)
(* Properties of the parser.                                               *)
(***************************************************************************)
\* the step belongs to the processor that is already running
SameProcessor == pLog'.run = pLog.run

\* the file of the processor's target in the results directory
LogFile == disk[LogPath(fp.target)]

\* the lines of the stream that contain the failure marker
MarkerLines == { i \in 1..Len(pLines) : Contains(pLines[i], FailMarker) }

\* the lines of the stream that match one of the failing-input forms
InputLines == { i \in 1..Len(pLines) : MatchAt(pLines[i]) # {} }

\* C14: SeenFailure is monotonic during the processing of a stream: once a
\* marker line has set it, no later line, marker or not, makes it false or
\* changes it.
C14_SeenFailureMonotonic ==
    [][SameProcessor /\ fp.SeenFailure => fp'.SeenFailure]_pvars

\* a marker line, a line without the marker and a second marker line were
\* processed, and the flag is set
C14_Witness ==
    /\ Len(pLines) >= 3
    /\ 1 \in MarkerLines /\ 2 \notin MarkerLines /\ 3 \in MarkerLines
    /\ fp.SeenFailure

\* C15: during the processing of one target's stream InputPrinted goes from
\* false to true at most once and ErrorData is assigned at most once, in
\* that very step: once InputPrinted is set, neither it nor ErrorData changes,
\* whether the corpus file could be read or not.
C15_ErrorDataWrittenOnce ==
    [][SameProcessor =>
          /\ fp.InputPrinted =>
                fp'.InputPrinted /\ fp'.ErrorData = fp.ErrorData
          /\ fp'.ErrorData # fp.ErrorData =>
                ~fp.InputPrinted /\ fp'.InputPrinted
          /\ pLog'.reads <= 1]_pvars

\* the first matching line named a corpus file that could not be read, a
\* later matching line names the one that exists, and ErrorData still is the
\* placeholder of the first
C15_Witness ==
    /\ fp.InputPrinted
    /\ pLog.reads = 1
    /\ \E i \in InputLines, j \in InputLines :
          /\ i < j
          /\ \A k \in InputLines : i <= k
          /\ parseFailureLine(pLines[i]) = <<"FuzzFoo", "dead">>
          /\ parseFailureLine(pLines[j]) = <<"FuzzFoo", "abc123">>
          /\ fp.ErrorData = readInputData("FuzzFoo", "dead")
          /\ ~ReadFile("FuzzFoo", "dead").ok

\* the index of the first line that contains the failure marker
FirstMarker == CHOOSE k \in MarkerLines : \A j \in MarkerLines : k <= j

\* what WriteLine writes for the lines of the stream from the k-th onward
RECURSIVE LinesFrom(_, _)
LinesFrom(lines, k) ==
    IF k > Len(lines)
    THEN << >>
    ELSE lines[k] \o <<NL>> \o LinesFrom(lines, k + 1)

\* the log file was created by this processor and no write to it has failed
RecordedInFull == pLog.creates = 1 /\ pLog.writeFails = 0

\* the lines of Scenario A from the marker line onward; a second
\* "panic: x" stands for its last line
ScenarioA ==
    << <<FailMarker, " FuzzFoo">>,
       <<"panic: x">>,
       <<WrittenPrefix, "FuzzFoo", "/", "abc123">>,
       <<"panic: x">> >>

IsPrefix(a, b) == Len(a) <= Len(b) /\ SubSeq(b, 1, Len(a)) = a

\* C17: while one target's stream is processed the log writer is initialized
\* at most once, exactly when the first marker line arrives; no later step
\* of that processor, a further marker line included, creates the file
\* again or truncates it: what the open file holds is only ever extended.
C17_InitializedOnce ==
    [][SameProcessor =>
          /\ pLog'.inits <= 1
          /\ (pLog'.inits = 1) <=> (MarkerLines' # {})
          /\ fp.file = "open" =>
                /\ LogFile'.exists
                /\ IsPrefix(LogFile.data, LogFile'.data)]_pvars

\* Scenario C: a marker line, another line and a second marker line were
\* processed; the file was created once and holds all three lines
C17_Witness ==
    /\ Len(pLines) = 3
    /\ MarkerLines = {1, 3}
    /\ pLog.inits = 1 /\ RecordedInFull
    /\ fp.file = "open"
    /\ LogFile.data = LinesFrom(pLines, 1)

\* C18 (Scenario B): as long as no line of the stream contains the marker,
\* no step of the processor, the final one included, creates or changes a
\* file, opens the log, records a line, sets ErrorData or reports an error.
C18_NoMarkerNoLog ==
    [][SameProcessor /\ MarkerLines' = {} =>
          /\ disk' = disk
          /\ fp'.file = "nil"
          /\ pLog'.inits = 0
          /\ fp'.ErrorData = << >> /\ ~fp'.InputPrinted
          /\ pLog'.lineErrs = 0]_pvars

\* a stream without marker was processed to its end; one of its lines names
\* a failing input; no log file exists
C18_Witness ==
    /\ pPc = "done" /\ pLog.end = "eof"
    /\ Len(pLines) >= 2
    /\ MarkerLines = {} /\ InputLines # {}
    /\ LogFile = NoFile
    /\ fp.ErrorData = << >>

\* C19: when the stream ends and the log writer was never initialized, the
\* final step performs no operation on the absent file: no write of
\* ErrorData is attempted on it.
C19_NoOperationOnAbsentSink ==
    pPc = "done" /\ pLog.inits = 0 => pLog.absentOps = 0

\* data ends with the error data and its newline
EndsWithErrorData(data) ==
    LET tail == fp.ErrorData \o <<NL>>
    IN  /\ Len(data) >= Len(tail)
        /\ SubSeq(data, Len(data) - Len(tail) + 1, Len(data)) = tail

\* C20: Close runs exactly once, after the last line and however the read
\* loop ended; on a log file that was opened it appends ErrorData and then
\* closes the file, and the file is not closed before that.
C20_FinalizedOnceAndClosed ==
    /\ pPc = "reading" => pLog.closes = 0 /\ fp.file # "closed"
    /\ pPc = "done" =>
          /\ pLog.closes = 1
          /\ fp.file # "nil" =>
                fp.file = "closed" /\ EndsWithErrorData(LogFile.data)

\* the lines from the first marker line onward that match a failing-input
\* form
InputLinesSeen ==
    IF MarkerLines = {} THEN {} ELSE { i \in InputLines : i >= FirstMarker }

\* C21: a failed write of a line to the log does not stop extraction: once
\* a line matching a failing-input form has been handled after detection,
\* the input is captured, whatever became of the write of that line.
C21_WriteFailureKeepsExtraction ==
    pPc \in {"reading", "done"} /\ InputLinesSeen # {} => fp.InputPrinted

\* C22: the handling of a line that reads the corpus sets InputPrinted and
\* is the only read of this processor; when the file cannot be read,
\* ErrorData is the placeholder naming target/id and the error.
C22_FailedReadIsFinal ==
    [][SameProcessor /\ pLog'.reads > pLog.reads =>
          LET p == parseFailureLine(pLines'[Len(pLines')])
              r == ReadFile(p[1], p[2])
          IN  /\ fp'.InputPrinted
              /\ pLog'.reads = 1
              /\ ~r.ok =>
                    fp'.ErrorData =
                        <<NL, "<< failed to read ", p[1], "/", p[2], ": ">>
                            \o r.data \o <<" >>", NL>>]_pvars

\* the read for the seed corpus entry FuzzFoo/dead failed, a later line
\* names another input, and the placeholder stays
C22_Witness ==
    /\ pLog.captured # 0
    /\ pLines[pLog.captured] = <<SeedPrefix, "FuzzFoo", "/", "dead">>
    /\ \E j \in InputLinesSeen : j > pLog.captured
    /\ pLog.reads = 1 /\ fp.InputPrinted
    /\ fp.ErrorData =
          <<NL, "<< failed to read ", "FuzzFoo", "/", "dead", ": ",
            "no such file or directory", " >>", NL>>

\* the header readInputData puts before the bytes of target/id
Header(target, id) ==
    <<NL, NL, "=== Failing testcase (", target, "/", id, ") ===", NL>>

\* what follows the header in a formatted test case
Payload(errorData) == SubSeq(errorData, 9, Len(errorData))

\* the target and id of the line that was captured
CapturedInput == parseFailureLine(pLines[pLog.captured])

\* C23: when the captured line names a corpus file that exists, ErrorData is
\* the header of target/id followed by exactly the bytes of the file, so
\* the bytes can be read back from it; and a log closed without error ends
\* with that block and one newline.
C23_RoundTrip ==
    pLog.captured # 0 /\ ReadFile(CapturedInput[1], CapturedInput[2]).ok =>
        LET block == Header(CapturedInput[1], CapturedInput[2]) \o corpus
        IN  /\ fp.ErrorData = block
            /\ Payload(fp.ErrorData) = corpus
            /\ pPc = "done" /\ pLog.final = "ok" =>
                  /\ Len(LogFile.data) > Len(block)
                  /\ SubSeq(LogFile.data, Len(LogFile.data) - Len(block),
                            Len(LogFile.data)) = block \o <<NL>>

\* a corpus file of two lines was captured and the log was closed
C23_Witness ==
    /\ pPc = "done" /\ pLog.final = "ok"
    /\ pLog.captured # 0
    /\ CapturedInput = <<"FuzzFoo", "abc123">>
    /\ corpus = <<"a", NL, "b">>
    /\ Payload(fp.ErrorData) = <<"a", NL, "b">>

\* C24: the failure log of a target is the one file LogPath names, and it
\* holds the output of one execution only.  The step that creates the log
\* leaves nothing of what the file held before; from then on the file holds
\* the lines of this processor from its first marker line onward; and a
\* processor that creates no log, for want of a marker, changes no file.
C24_LogOfLatestFailingRun ==
    [][SameProcessor =>
          /\ DOMAIN disk' = {LogPath(t) : t \in TargetNames}
          /\ \A path \in DOMAIN disk :
                path # LogPath(fp.target) => disk'[path] = disk[path]
          /\ pLog'.creates > pLog.creates =>
                LogFile'.data \in
                    {<< >>, pLines'[Len(pLines')] \o <<NL>>}
          /\ pPc' = "reading" /\ pLog'.creates = 1 /\ pLog'.writeFails = 0 =>
                LogFile'.data = LinesFrom(pLines', FirstMarker')
          /\ pLog'.creates = 0 => disk' = disk]_pvars

\* the log left by an earlier execution was replaced by the lines of the
\* second one
C24_Witness ==
    /\ pLog.run = 2 /\ pLog.hadLog
    /\ pPc = "reading" /\ RecordedInFull
    /\ pLines # << >>
    /\ LogFile.data = LinesFrom(pLines, FirstMarker)

\* the first line from the first marker line onward that matches a
\* failing-input form
FirstInputLine ==
    CHOOSE i \in InputLinesSeen : \A j \in InputLinesSeen : i <= j

\* C30: a matching line that arrives before any marker line changes neither
\* ErrorData nor InputPrinted and is not recorded; and the line that is
\* captured is the first matching line at or after the first marker line,
\* no other.
C30_OnlyFirstMatchCaptured ==
    /\ pPc \in {"reading", "done"} /\ MarkerLines = {} =>
          /\ fp.ErrorData = << >> /\ ~fp.InputPrinted
          /\ pLog.captured = 0
          /\ fp.file = "nil"
    /\ pLog.captured # 0 => pLog.captured = FirstInputLine

(***************************************************************************)
(* Properties of RunFuzzing.                                               *)
(***************************************************************************)
\* C26: when the listing command of a package exits cleanly, listFuzzTargets
\* returns no error; if it yields no target, RunFuzzing starts no fuzz
\* subprocess for the package and goes on to the next package.  When the
\* command exits with an error status, the listing is an error.  A fuzz
\* subprocess only ever runs for one of the targets that were listed.
C26_EmptyListingSkipsPackage ==
    [][\A c \in Cycles :
          /\ w[c].pc = "listing" /\ w'[c].pc # "listing" =>
                /\ w[c].sub = "exitedOk" =>
                      /\ w'[c].err = "none"
                      /\ w'[c].pc \in {"pkgLoop", "launch"}
                      /\ w'[c].pc = "pkgLoop" =>
                            /\ w'[c].pkg = w[c].pkg + 1
                            /\ w'[c].ran = w[c].ran
                      /\ w'[c].pc = "launch" => w'[c].ntgts >= 1
                /\ w[c].sub = "exitedFail" =>
                      w'[c].pc = "mainErr" /\ w'[c].err = "list"
          /\ w'[c].pc \in {"launch", "draining"} =>
                w'[c].tgt \in 1..w'[c].ntgts]_vars

\* the first fuzz subprocess of a cycle runs for the second package: the
\* first package had no target and was passed over without an error
C26_Witness ==
    \E c \in Cycles :
        /\ w[c].pc = "draining" /\ w[c].sub = "running"
        /\ w[c].pkg = 2 /\ w[c].tgt = 1 /\ w[c].ran = 1
        /\ w[c].err = "none"

\* C29: an error of listFuzzTargets or executeFuzzTarget brings RunFuzzing
\* back to Main at once, with the error: from then on the worker lists no
\* package and starts no subprocess, whatever targets and packages remain.
C29_ErrorStopsRunFuzzing ==
    [][\A c \in Cycles :
          /\ w'[c].err # "none" => w'[c].pc \in {"mainErr", "exited"}
          /\ w[c].err # "none" =>
                /\ w'[c].err = w[c].err
                /\ w'[c].ran = w[c].ran
                /\ w'[c].pkg = w[c].pkg /\ w'[c].tgt = w[c].tgt
                /\ w'[c].sub = w[c].sub /\ w[c].sub # "running"]_vars

\* the first of two targets failed while a second package was still to come,
\* and Main has ended the process
C29_Witness ==
    \E c \in Cycles :
        /\ w[c].pc = "exited" /\ w[c].err = "exec" /\ ~w[c].errCanc
        /\ w[c].tgt = 1 /\ w[c].ntgts = 2 /\ w[c].ran = 1
        /\ w[c].pkg = 1 /\ NumPkgs > 1

(***************************************************************************)
(* Properties of listFuzzTargets.                                          *)
(***************************************************************************)
\* the lines of the listing output, trimmed
CleanLines ==
    LET lines == Split(stdout)
    IN  [i \in 1..Len(lines) |-> TrimSpace(lines[i])]

\* the numbers of the lines that, trimmed, begin with "Fuzz"
TargetLines == { i \in 1..Len(CleanLines) : HasPrefix(CleanLines[i]) }

\* the k-th of these, in the order of the output
NthTargetLine(k) ==
    CHOOSE i \in TargetLines : Cardinality({ j \in TargetLines : j <= i }) = k

\* C25: listFuzzTargets returns the trimmed lines of the output that begin
\* with "Fuzz", each once, in the order of the output; every target begins
\* with "Fuzz" and has no white space at either end.
C25_TargetsInOutputOrder ==
    listPc = "returned" =>
        /\ Len(targets) = Cardinality(TargetLines)
        /\ \A k \in 1..Len(targets) :
              /\ targets[k] = CleanLines[NthTargetLine(k)]
              /\ targets[k][1] = "Fuzz"
              /\ targets[k][Len(targets[k])] \notin WhiteSpace

\* the output " FuzzB\nFuzzA" gave FuzzB and FuzzA, in this order
C25_Witness ==
    /\ listPc = "returned"
    /\ stdout = <<" ", "Fuzz", "B", NL, "Fuzz", "A">>
    /\ targets = << <<"Fuzz", "B">>, <<"Fuzz", "A">> >>

(***************************************************************************)
(* Properties of the start of the program.                                 *)
(***************************************************************************)
\* the text is a whole number greater than zero
IsPositiveNumber(str) == Atoi(str).ok /\ Atoi(str).num > 0

\* C27: the process count LoadConfig stores lies between 1 and the number
\* of cores.  A FUZZ_NUM_PROCESSES that is a positive number is taken as it
\* is when it does not exceed the number of cores and replaced by the number
\* of cores when it does; an empty, non-numeric, zero or negative value
\* gives the number of cores.
C27_ProcessCountWithinCores ==
    ~cfg.nil =>
        LET v == env.FUZZ_NUM_PROCESSES
            n == cfg.NumProcesses
        IN  /\ n \in 1..env.NumCPU
            /\ IsPositiveNumber(v) /\ Atoi(v).num <= env.NumCPU =>
                  n = Atoi(v).num
            /\ IsPositiveNumber(v) /\ Atoi(v).num > env.NumCPU =>
                  n = env.NumCPU
            /\ ~IsPositiveNumber(v) => n = env.NumCPU

\* FUZZ_NUM_PROCESSES=3 on a machine of two cores gave two processes
C27_Witness ==
    /\ ~cfg.nil
    /\ env.FUZZ_NUM_PROCESSES = <<"3">> /\ env.NumCPU = 2
    /\ cfg.NumProcesses = 2

\* a required variable is missing, or FUZZ_TIME is set and not a number
FatalEnvironment ==
    \/ env.PROJECT_SRC_PATH = << >>
    \/ env.GIT_STORAGE_REPO = << >>
    \/ env.FUZZ_PKG = << >>
    \/ env.FUZZ_TIME # << >> /\ ~Atoi(env.FUZZ_TIME).ok

\* C28: with a required variable missing or a FUZZ_TIME that is not a
\* number, LoadConfig returns nil and an error, main logs it and exits with
\* status 1 in its very next step, and runFuzzingCycles, which alone starts
\* workers and invokes the cleanup, is never called.
C28_FatalStartupStops ==
    [][mainPc' # "start" /\ FatalEnvironment' =>
          /\ mainPc' \in {"loadConfig", "exited"}
          /\ cfg'.nil
          /\ startLog'.cycles = 0
          /\ mainPc = "loadConfig" =>
                /\ mainPc' = "exited"
                /\ startLog'.exit = 1
                /\ startLog'.errors = 1
                /\ startLog'.err \in {"PROJECT_SRC_PATH", "GIT_STORAGE_REPO",
                                      "mkdir", "FUZZ_TIME", "FUZZ_PKG"}]_svars

\* everything required is set, FUZZ_TIME is not a number, and main has
\* exited with the error of LoadConfig
C28_Witness ==
    /\ mainPc = "exited"
    /\ env.PROJECT_SRC_PATH # << >> /\ env.GIT_STORAGE_REPO # << >>
    /\ env.FUZZ_PKG # << >> /\ env.mkdirOk
    /\ env.FUZZ_TIME = <<"x">>
    /\ cfg.nil
    /\ startLog = [errors |-> 1, err |-> "FUZZ_TIME", exit |-> 1, cycles |-> 0]

\* ---------------------------------------------------------------------
\* Lines that match neither failing-input form

\* the line handed to processLine by the step, when the step is one
LineStep == Len(pLines') = Len(pLines) + 1
ThisLine == pLines'[Len(pLines')]

\* C31: a line that matches neither failing-input form changes no detector
\* state.  Processed while SeenFailure is true it leaves SeenFailure,
\* InputPrinted and ErrorData as they were and its only effect on the log
\* file is that the line is appended (when the file is open and the write
\* succeeds; otherwise the file keeps its contents).  A line without the
\* marker processed while SeenFailure is false leaves the whole state and
\* every file unchanged.
C31_NoMatchNoStateChange ==
    [][ LineStep =>
          /\ (fp.SeenFailure /\ MatchAt(ThisLine) = {}) =>
                /\ fp'.SeenFailure = fp.SeenFailure
                /\ fp'.InputPrinted = fp.InputPrinted
                /\ fp'.ErrorData = fp.ErrorData
                /\ fp'.file = fp.file
                /\ LogFile'.data =
                      IF fp.file = "open" /\ pLog'.writeFails = pLog.writeFails
                      THEN LogFile.data \o ThisLine \o <<NL>>
                      ELSE LogFile.data
                /\ \A f \in DOMAIN disk : f # LogPath(fp.target) => disk'[f] = disk[f]
          /\ (~fp.SeenFailure /\ ~Contains(ThisLine, FailMarker)) =>
                /\ fp' = fp
                /\ disk' = disk ]_pvars

\* a run in which a line without a match follows the captured input and is
\* appended to the log, and which earlier let a line pass before the marker
C31_Witness ==
    /\ pPc = "reading"
    /\ pLines = << <<"panic: x">>, <<FailMarker, " FuzzFoo">>,
                   <<WrittenPrefix, "FuzzFoo", "/", "abc123">>, <<"panic: x">> >>
    /\ fp.InputPrinted
    /\ pLog.captured = 3
    /\ LogFile.data = LinesFrom(pLines, 2)
    /\ fp.ErrorData = readInputData("FuzzFoo", "abc123")

\* ---------------------------------------------------------------------
\* A log file that could not be created

\* the processor has met its marker line and os.Create failed on it
CreationFailed == pLog.inits >= 1 /\ pLog.creates = 0

\* C38: when creating the log file fails on the first marker line,
\* SeenFailure is true from that line on, Initialize is never called again
\* by that processor (a later marker line included), every later line is
\* written against the absent file and reported as an error while no file
\* changes, and the end of the stream still finalizes the processor once.
C38_FailedCreationIsFinal ==
    [][ /\ (LineStep /\ pLog'.inits = pLog.inits + 1
                     /\ pLog'.creates = pLog.creates) =>
              /\ ~fp.SeenFailure /\ fp'.SeenFailure
              /\ fp'.file = "nil"
              /\ pLog'.lineErrs = pLog.lineErrs + 1
              /\ pLog'.absentOps = pLog.absentOps
              /\ disk' = disk
        /\ (CreationFailed /\ SameProcessor) =>
              /\ pLog'.inits = 1 /\ pLog'.creates = 0
              /\ fp'.SeenFailure
              /\ fp'.file = "nil"
              /\ disk' = disk
              /\ IF LineStep
                 THEN /\ pLog'.lineErrs = pLog.lineErrs + 1
                      /\ pLog'.absentOps = pLog.absentOps + 1
                      /\ pLog'.lineErrs = Len(pLines') - FirstMarker' + 1
                      /\ pPc' = "reading"
                 ELSE /\ pPc' = "done"
                      /\ pLog'.closes = 1 ]_pvars

\* creation failed on the marker line, a line and a second marker line
\* followed, each reported as an error, and the stream has ended
C38_Witness ==
    /\ pPc = "done"
    /\ pLines = << <<FailMarker, " FuzzFoo">>, <<"panic: x">>,
                   <<FailMarker, " FuzzFoo">> >>
    /\ pLog.inits = 1 /\ pLog.creates = 0
    /\ pLog.lineErrs = 3 /\ pLog.absentOps = 3
    /\ pLog.closes = 1
    /\ fp.SeenFailure /\ fp.file = "nil"

\* ---------------------------------------------------------------------
\* One processor for each execution of a target

\* C33: nothing of the detector passes from one target to the next.  The
\* step that makes the processor of a target leaves it with SeenFailure
\* false, InputPrinted false, ErrorData empty and no file, and touches no
\* log; from then on SeenFailure is true only when one of this target's own
\* lines held the marker, ErrorData is what one of this target's own lines
\* from its marker onward named (empty when none did), and what the end of
\* the stream appends to this target's log is that ErrorData.
C33_NoLeakAcrossTargets ==
    [][ /\ pLog'.run = pLog.run + 1 =>
              /\ ~fp'.SeenFailure /\ ~fp'.InputPrinted
              /\ fp'.ErrorData = << >>
              /\ fp'.file = "nil"
              /\ disk' = disk
        /\ SameProcessor =>
              /\ fp'.SeenFailure <=> MarkerLines' # {}
              /\ fp'.file # "nil" => MarkerLines' # {}
              /\ pLog'.captured = 0 =>
                    fp'.ErrorData = << >> /\ ~fp'.InputPrinted
              /\ pLog'.captured # 0 =>
                    /\ pLog'.captured \in FirstMarker'..Len(pLines')
                    /\ LET named == parseFailureLine(pLines'[pLog'.captured])
                       IN  fp'.ErrorData = readInputData(named[1], named[2])
              /\ (pPc' = "done" /\ pLog'.final = "ok") =>
                    LogFile'.data = LogFile.data \o fp'.ErrorData \o <<NL>> ]_pvars

\* FuzzFoo failed and its captured input is in its log; FuzzBar ran after
\* it, its stream named the same input but held no marker, and it ended
\* with no log and an empty ErrorData
C33_Witness ==
    /\ pLog.run = 2 /\ pPc = "done"
    /\ fp.target = "FuzzBar"
    /\ LET data == disk[LogPath("FuzzFoo")].data
           tail == readInputData("FuzzFoo", "abc123") \o <<NL>>
       IN  /\ Len(data) > Len(tail)
           /\ SubSeq(data, Len(data) - Len(tail) + 1, Len(data)) = tail
    /\ pLines = << <<WrittenPrefix, "FuzzFoo", "/", "abc123">>, <<"panic: x">> >>
    /\ ~fp.SeenFailure /\ ~fp.InputPrinted /\ fp.ErrorData = << >>
    /\ disk[LogPath("FuzzBar")] = NoFile

\* ---------------------------------------------------------------------
\* The scheduler's iterations

\* the scheduler takes a step
SchedStep == schedPc' # schedPc

\* C35: when the root context is already cancelled as an iteration of
\* RunFuzzingCycles begins, the scheduler's next step is its return: no
\* cycle context is made, no worker is started and no cleanup is run in
\* that iteration.
C35_CancelledRootReturnsAtOnce ==
    [][ (schedPc = "loopHead" /\ rootDone /\ SchedStep) =>
            /\ schedPc' = "returned"
            /\ cycle' = cycle
            /\ cycleDone' = cycleDone
            /\ doneClosed' = doneClosed
            /\ w' = w ]_vars

\* the root was cancelled before the first iteration began and the scheduler
\* returned: no cycle was ever started, so the return came from the head of
\* the loop
C35_Witness ==
    /\ schedPc = "returned"
    /\ rootDone
    /\ cycle = 0
    /\ \A c \in Cycles : w[c] = NoWorker /\ ~cycleDone[c]
    /\ ~procExited

\* C39: when the cycle context is already cancelled at the moment the
\* worker goroutine first runs, the goroutine returns from runFuzzingWorker:
\* it never enters worker.Main, so it starts no clone, no listing and no
\* fuzz subprocess, then or later.
C39_CancelledWorkerStartsNothing ==
    [][ \A c \in Cycles :
          /\ (w[c].pc = "spawned" /\ CtxDone(c) /\ w'[c] # w[c]) =>
                w'[c] = [NoWorker EXCEPT !.pc = "returned"]
          /\ w[c].pc = "returned" => w'[c] = w[c] ]_vars

\* a worker that found its context cancelled: it has returned, and the
\* deferred close of worker.Main, which it never entered, has not run
C39_Witness ==
    \E c \in Cycles :
        /\ w[c] = [NoWorker EXCEPT !.pc = "returned"]
        /\ doneClosed[c] = 0
        /\ cycleDone[c]

\* the order in which RunFuzzingCycles moves through one iteration
IterationOrder ==
    { <<"loopHead", "startCycle">>, <<"loopHead", "returned">>,
      <<"startCycle", "select">>,
      <<"select", "waitElapsed">>, <<"select", "waitRoot">>,
      <<"waitElapsed", "cleanupElapsed">>, <<"waitRoot", "cleanupRoot">>,
      <<"cleanupElapsed", "loopHead">>, <<"cleanupRoot", "returned">> }

\* C36: an iteration of the scheduler goes through the start of the
\* worker, the cancellation of the cycle context, the receipt of the
\* worker's completion signal and the cleanup, in this order and each once:
\* the scheduler moves only along IterationOrder, a worker is started by
\* the first of these steps and by no other, the wait begins with the cycle
\* context cancelled, the cleanup begins only after doneChan was closed,
\* and when the next worker is started every earlier cycle is cancelled,
\* its completion observed, and its worker gone.
C36_IterationInOrder ==
    [][ /\ SchedStep => <<schedPc, schedPc'>> \in IterationOrder
        /\ (SchedStep /\ schedPc = "startCycle") =>
              /\ cycle' = cycle + 1
              /\ w[cycle'].pc = "none" /\ w'[cycle'].pc = "spawned"
              /\ \A c \in 1..cycle :
                    cycleDone[c] /\ doneClosed[c] > 0 /\ ~WorkerActive(c)
        /\ ~(SchedStep /\ schedPc = "startCycle") =>
              /\ cycle' = cycle
              /\ \A c \in Cycles : w[c].pc = "none" => w'[c].pc = "none"
        /\ (SchedStep /\ schedPc = "select") => cycleDone'[cycle]
        /\ (SchedStep /\ schedPc' \in {"cleanupElapsed", "cleanupRoot"}) =>
              /\ cycleDone[cycle]
              /\ doneClosed[cycle] > 0
              /\ ~WorkerActive(cycle) ]_vars

\* the second worker has just been started, after the first cycle was
\* cancelled, its worker's completion observed and the cleanup done
C36_Witness ==
    /\ schedPc = "select" /\ cycle = 2
    /\ w[2].pc = "spawned"
    /\ cycleDone[1] /\ doneClosed[1] = 1 /\ w[1].pc = "returned"
    /\ ~cycleDone[2]

\* the worker of the current cycle went through every package and returned
\* from Main while the scheduler was still in its select
FinishedEarly ==
    /\ schedPc = "select"
    /\ w[cycle].pc = "returned"
    /\ doneClosed[cycle] > 0

\* C37: a cycle does not end before its bound.  While the worker has
\* finished early, the only steps the scheduler takes are the two cases of
\* its select: the timer of cycleDuration fires, or the root context is
\* cancelled.  Until then it runs no cleanup and starts no worker.
C37_CycleRunsItsDuration ==
    [][ FinishedEarly =>
          /\ SchedStep =>
                \/ schedPc' = "waitElapsed"
                \/ schedPc' = "waitRoot" /\ rootDone
          /\ ~InCleanup'
          /\ cycle' = cycle
          /\ \A c \in Cycles : w'[c].pc # "spawned" ]_vars

\* the worker has finished on its own, neither context is cancelled, and
\* the scheduler is still waiting in its select
C37_Witness ==
    /\ FinishedEarly
    /\ ~rootDone /\ ~cycleDone[cycle]
    /\ cycle = 1

\* ---------------------------------------------------------------------
\* What executeFuzzTarget leaves behind

\* the worker of cycle c is inside executeFuzzTarget
InExecute(c) == w[c].pc \in {"launch", "draining"}

\* C34: every return of executeFuzzTarget leaves no resource behind.  A
\* return after the subprocess was launched comes when both readers have
\* finished and the subprocess was waited for; after an early error return
\* no subprocess runs and no pipe is open.
C34_NothingLeftBehind ==
    [][ \A c \in Cycles :
          (InExecute(c) /\ ~InExecute(c)') =>
              /\ w[c].pc = "draining" =>
                    /\ w[c].readers = Streams
                    /\ w[c].sub \in {"exitedOk", "exitedFail", "killed"}
              /\ w'[c].sub # "running"
              /\ w'[c].pipes = {} ]_vars

\* ---------------------------------------------------------------------
\* The two readers and the detector

====
